---- MODULE Spec2Model ----
(***************************************************************************)
(* A model of the library lifecycle routes of dim                          *)
(* (src/dim/src/routes/library.rs) and of the account primitives           *)
(* (src/database/src/user.rs).                                             *)
(*                                                                         *)
(* The store is one record of tables.  `db` is the committed image that    *)
(* read transactions see; `tx` is the working copy of the one open write   *)
(* transaction, copied from `db` by write_tx and written back by commit.   *)
(* `writer` is the owner of the tokio Mutex returned by conn.writer().     *)
(***************************************************************************)
EXTENDS Integers, Sequences, FiniteSets, TLC

\* ------------------------------------------------------------------ bounds
MaxReq == 2        \* concurrent HTTP requests on the library routes
MaxLib == 2        \* library ids the store can hand out
MaxEvReq == 1      \* requests followed together with the event subscribers
MaxLiveReq == 1    \* requests followed under fair scheduling
MaxSub == 1        \* event subscribers
BufCap == 1        \* a subscriber's buffer
MaxLen == 2        \* length of the secrets given to the hasher
MaxSalt == 1       \* length of the salts given to the hasher
MaxOps == 3        \* length of the sequences of calls on the accounts

Req    == 1..MaxReq
LibIds == 1..MaxLib
Sub    == 1..MaxSub
Names  == {1, 2}   \* library names, coded by their rank in string order

\* ------------------------------------------------------- credential hasher
\* A String is the sequence of its bytes.  The strings the hasher is tried on
\* are made of "a" and of NUL, which a String may hold like any other character.
Chars == {0, 97}
Strings(n) == UNION {[1..k -> Chars] : k \in 0..n}

BLOCK_LEN == 64           \* block length of SHA-256, the digest of PBKDF2_ALG
SHA256_OUTPUT_LEN == 32
CREDENTIAL_LEN == SHA256_OUTPUT_LEN
HASH_ROUNDS == 1000

\* A block of bytes read as one number, its first byte the lowest digit.
RECURSIVE block_value(_, _)
block_value(block, i) ==
    IF i > Len(block) THEN 0 ELSE block[i] + 256 * block_value(block, i + 1)

\* ring, hmac::Key::new, which pbkdf2::derive and pbkdf2::verify build from the
\* secret: a key no longer than a block is used as it is, a longer one is
\* digested first, and the key is then padded with zero bytes to the block.
\* The padded block is kept as the number it spells.
hmac_Key_new(key_value) ==
    IF Len(key_value) <= BLOCK_LEN
    THEN [digested |-> FALSE,
          block |-> block_value([i \in 1..BLOCK_LEN |->
                                   IF i <= Len(key_value) THEN key_value[i] ELSE 0], 1)]
    ELSE [digested |-> TRUE, of |-> key_value]

\* Byte number p of the PBKDF2 output T_1 || T_2 || ... for a key, a salt and
\* an iteration count.  The bytes are not computed: a byte is named by what it
\* is derived from, so that bytes are equal exactly when their names are.
derived_byte(key, iterations, salt, p) ==
    [key |-> key, iterations |-> iterations, salt |-> salt,
     idx |-> ((p - 1) \div SHA256_OUTPUT_LEN) + 1,
     at  |-> ((p - 1) % SHA256_OUTPUT_LEN) + 1]

\* pbkdf2::derive(PBKDF2_ALG, iterations, salt, secret, out)
pbkdf2_derive(iterations, salt, secret, out_len) ==
    LET key == hmac_Key_new(secret)
    IN  [p \in 1..out_len |-> derived_byte(key, iterations, salt, p)]

\* pbkdf2::verify(PBKDF2_ALG, iterations, salt, secret, previously_derived):
\* an error for an empty previously_derived; otherwise as many bytes are derived
\* as previously_derived holds and compared with it, block by block.
pbkdf2_verify(iterations, salt, secret, previously_derived) ==
    IF previously_derived = <<>> THEN "Err"
    ELSE IF pbkdf2_derive(iterations, salt, secret, Len(previously_derived)) = previously_derived
         THEN "Ok" ELSE "Err"

\* A character of a base64 text is named by the group of (at most three) bytes
\* it encodes and by its place k in 1..4 among the characters of that group.
\* Pad is "="; Bang is "!", a character outside the base64 alphabet.  The texts
\* of the model are those encode makes, cut short or with characters replaced
\* by Bang.
Pad  == [of |-> <<>>, k |-> 0]
Bang == [of |-> <<>>, k |-> -1]

\* base64::encode: three bytes make four characters; a last group of one or two
\* bytes makes two or three characters and is padded to four.
base64_encode(bytes) ==
    LET n == Len(bytes)
        group(i) == SubSeq(bytes, 3 * i - 2, IF 3 * i < n THEN 3 * i ELSE n)
        char(p) == LET i == ((p - 1) \div 4) + 1
                       k == ((p - 1) % 4) + 1
                   IN  IF k <= Len(group(i)) + 1 THEN [of |-> group(i), k |-> k] ELSE Pad
    IN  [p \in 1..(4 * ((n + 2) \div 3)) |-> char(p)]

\* The bytes of the groups of a text without its padding.
RECURSIVE decoded_groups(_)
decoded_groups(text) ==
    IF text = <<>> THEN <<>>
    ELSE LET c == IF Len(text) < 4 THEN Len(text) ELSE 4
         IN  SubSeq(text[1].of, 1, c - 1) \o decoded_groups(SubSeq(text, c + 1, Len(text)))

\* base64::decode: the text without its (at most two) trailing "=" must be made
\* of characters of the alphabet, a last group cannot be one character, its
\* unused bits must be zero as encode leaves them, and padding, when there is
\* any, must fill the last group.
base64_decode(text) ==
    LET n    == Len(text)
        pads == IF n >= 1 /\ text[n] = Pad
                THEN (IF n >= 2 /\ text[n - 1] = Pad THEN 2 ELSE 1)
                ELSE 0
        m    == n - pads
        last == m % 4
        ok   == /\ \A p \in 1..m : text[p].k \in 1..4
                /\ last # 1
                /\ last # 0 => Len(text[m].of) = last - 1
                /\ pads # 0 => (m + pads) % 4 = 0
    IN  IF ok THEN [ok |-> TRUE, bytes |-> decoded_groups(SubSeq(text, 1, m))]
        ELSE [ok |-> FALSE, bytes |-> <<>>]

\* hash(salt, s): the PBKDF2 credential of s under salt, in base64.
hash(salt, s) ==
    base64_encode(pbkdf2_derive(HASH_ROUNDS, salt, s, CREDENTIAL_LEN))

\* verify(salt, password, attempted_password): `password` is the stored text.
\* base64::decode(&password).unwrap() panics when the text does not decode.
verify(salt, password, attempted_password) ==
    LET real_pwd == base64_decode(password) IN
    IF ~real_pwd.ok THEN "panic"
    ELSE IF pbkdf2_verify(HASH_ROUNDS, salt, attempted_password, real_pwd.bytes) = "Ok"
         THEN "true" ELSE "false"

VARIABLES
    db,        \* the committed store
    tx,        \* the open write transaction: [open, st]
    writer,    \* owner of the writer mutex, or Free
    op,        \* op[r]: the request's route and arguments
    pc,        \* pc[r]: the request's position in its handler
    ret,       \* ret[r]: what the handler returned
    newid,     \* newid[r]: the id `insert` returned to library_post
    count,     \* count[r]: what mark_hidden returned to library_delete
    wpc,       \* wpc[r]: position of the delete_lib_fut task spawned by r
    spc,       \* spc[r]: the scanner task spawned by r
    rx,        \* rx[s]: a subscriber of the event channel: [open, buf]
    seen,      \* history: the row mark_hidden met, the validity register found
    attempts,  \* history: how often r's cascade task took the writer lock
    sent,      \* history: whom r's event reached and whose buffer was full
    salt,      \* the hasher's inputs: the salt (the username),
    secret,    \*   the secret that is hashed,
    attempted_password,  \* and the secret that is later tried
    stored,    \* the digest text kept for the account
    outcome,   \* what verify came to
    hpc,       \* how far the hasher's calls have got
    last,      \* the last call on the accounts and invites, and its result
    nops,      \* how many such calls were made
    issued,    \* history: every token new_invite ever made
    accepted,  \* history: accepted[t], the registrations that succeeded with t
    plain,     \* history: plain[u], the current secret of the account named u
    rdop,      \* rdop[k]: the read route and argument of the GET request k
    rdpc,      \* rdpc[k]: its position in its handler
    rdret,     \* rdret[k]: what its handler returned
    rdsaw      \* history: whether a write transaction was open, and another
               \*   reader had its transaction, when k began its own

hasher == <<salt, secret, attempted_password, stored, outcome, hpc>>
accounts == <<last, nops, issued, accepted, plain>>
readers == <<rdop, rdpc, rdret, rdsaw>>
vars == <<db, tx, writer, op, pc, ret, newid, count, wpc, spc, rx,
          seen, attempts, sent, hasher, accounts, readers>>
hist == <<seen, attempts, sent>>

\* ------------------------------------------------------------------ store
NoRow == [present |-> FALSE, name |-> 0, hidden |-> FALSE]

EmptyStore ==
    [library   |-> [i \in LibIds |-> NoRow],
     media     |-> {},
     mediafile |-> {},
     next_id   |-> 1,
     users     |-> {},
     invites   |-> {}]

\* What one scan of a library directory inserts: media rows (movies, episodes)
\* and media files, matched (media_id set) or unmatched (media_id NULL, here 0).
ScanResults ==
    { [media |-> {"movie", "episode"}, mediafile |-> {0, 1}],
      [media |-> {},                   mediafile |-> {0}] }

insert_scan(st, id, res) ==
    [st EXCEPT !.media     = @ \cup {[library_id |-> id, media_type |-> t] : t \in res.media},
               !.mediafile = @ \cup {[library_id |-> id, media_id |-> m] : m \in res.mediafile}]

\* A store left by an earlier run of the server: one scanned, visible library.
SeededStore ==
    insert_scan([EmptyStore EXCEPT !.library[1] = [present |-> TRUE, name |-> 2, hidden |-> FALSE],
                                   !.next_id = 2],
                1, [media |-> {"movie", "episode"}, mediafile |-> {0, 1}])

NoTx == [open |-> FALSE, st |-> EmptyStore]
Free == <<"free", 0>>
request(r) == <<"request", r>>
cascade(r) == <<"cascade", r>>

\* InsertableLibrary::insert: a new visible row under a fresh id.
library_insert(st, name) ==
    [id |-> st.next_id,
     st |-> [st EXCEPT !.library[st.next_id] = [present |-> TRUE, name |-> name, hidden |-> FALSE],
                       !.next_id = @ + 1]]

\* Library::mark_hidden: the number of rows taken from visible to hidden.
mark_hidden(st, id) ==
    IF id \in LibIds /\ st.library[id].present /\ ~st.library[id].hidden
    THEN [count |-> 1, st |-> [st EXCEPT !.library[id].hidden = TRUE]]
    ELSE [count |-> 0, st |-> st]

\* Library::delete, Media::delete_by_lib_id, MediaFile::delete_by_lib_id.
library_delete_row(st, id) ==
    IF id \in LibIds THEN [st EXCEPT !.library[id] = NoRow] ELSE st

media_delete_by_lib_id(st, id) ==
    [st EXCEPT !.media = {m \in @ : m.library_id # id}]

mediafile_delete_by_lib_id(st, id) ==
    [st EXCEPT !.mediafile = {m \in @ : m.library_id # id}]

\* ---- accounts and invites (src/database/src/user.rs)
Tokens == {1, 2}                \* invite ids
None == 0                       \* a login without invite_token
Usernames == {<<97>>, <<98>>}   \* "a", "b"

\* Login::invite_token_valid: false without a token; otherwise whether the
\* invites table holds the token and no user's claimed_invite is the token.
\* A login that takes every unclaimed token for issued.
invite_token_valid_unclaimed(st, login) ==
    IF login.invite_token = None THEN FALSE
    ELSE login.invite_token \notin {u.claimed_invite : u \in st.users}

\* A login that takes every issued token for unclaimed.
invite_token_valid_issued(st, login) ==
    IF login.invite_token = None THEN FALSE
    ELSE \E id \in st.invites : id = login.invite_token

invite_token_valid(st, login) ==
    IF login.invite_token = None THEN FALSE
    ELSE \E id \in st.invites :
            /\ id \notin {u.claimed_invite : u \in st.users}
            /\ id = login.invite_token

\* InsertableUser::insert: the row is stored under the hash of its password,
\* salted with the username.  The accounts are keyed by their unique username:
\* the INSERT of a username that is taken fails.
InsertableUser_insert(st, user) ==
    IF \E u \in st.users : u.username = user.username
    THEN [ok |-> FALSE, st |-> st]
    ELSE [ok |-> TRUE,
          st |-> [st EXCEPT !.users = @ \cup
                     {[username |-> user.username,
                       password |-> hash(user.username, user.password),
                       claimed_invite |-> user.claimed_invite]}]]

\* Login::new_invite: a fresh token is recorded.
new_invite(st, token) == [st EXCEPT !.invites = @ \cup {token}]

\* User::get_one: the row of that username whose password column is the hash of
\* the given password under that username; an error when there is none.
User_get_one(st, uname, pw) ==
    LET rows == {u \in st.users : u.username = uname /\ u.password = hash(uname, pw)}
    IN  [ok |-> rows # {}, rows |-> rows]

\* User::delete: the rows of that username go; their number is returned.
User_delete(st, uname) ==
    [count |-> Cardinality({u \in st.users : u.username = uname}),
     st    |-> [st EXCEPT !.users = {u \in @ : u.username # uname}]]

\* User::set_password: the password column of self.username becomes the hash of
\* the new password under self.username.
User_set_password(st, self_username, password) ==
    [count |-> Cardinality({u \in st.users : u.username = self_username}),
     st    |-> [st EXCEPT !.users =
                  {IF u.username = self_username
                   THEN [u EXCEPT !.password = hash(self_username, password)]
                   ELSE u : u \in @}]]

\* User::set_username: UPDATE users SET username = new WHERE username = old.
\* The other columns stay; a username that another row holds is refused by the
\* key of the table.
User_set_username(st, old_username, new_username) ==
    IF /\ old_username # new_username
       /\ \E u \in st.users : u.username = old_username
       /\ \E u \in st.users : u.username = new_username
    THEN [ok |-> FALSE, count |-> 0, st |-> st]
    ELSE [ok |-> TRUE,
          count |-> Cardinality({u \in st.users : u.username = old_username}),
          st |-> [st EXCEPT !.users =
                     {IF u.username = old_username
                      THEN [u EXCEPT !.username = new_username]
                      ELSE u : u \in @}]]

\* Login::invalidate_token: DELETE FROM invites WHERE id = tok; 0 without token.
invalidate_token(st, login) ==
    IF login.invite_token = None THEN [count |-> 0, st |-> st]
    ELSE [count |-> IF login.invite_token \in st.invites THEN 1 ELSE 0,
          st    |-> [st EXCEPT !.invites = @ \ {login.invite_token}]]

\* A revocation that does not look at the accounts.
delete_token_claimed(st, token) ==
    IF token \in st.invites
    THEN [count |-> 1, st |-> [st EXCEPT !.invites = @ \ {token}]]
    ELSE [count |-> 0, st |-> st]

\* Login::delete_token: DELETE FROM invites WHERE id NOT IN (SELECT
\* claimed_invite FROM users) AND id = token.
delete_token(st, token) ==
    IF token \in st.invites /\ token \notin {u.claimed_invite : u \in st.users}
    THEN [count |-> 1, st |-> [st EXCEPT !.invites = @ \ {token}]]
    ELSE [count |-> 0, st |-> st]

\* ------------------------------------------------------------ read routes
\* Library::get_all: the visible rows, in id order.
RECURSIVE rows_from(_, _)
rows_from(st, i) ==
    IF i > MaxLib THEN <<>>
    ELSE (IF st.library[i].present /\ ~st.library[i].hidden
          THEN <<[id |-> i, name |-> st.library[i].name]>>
          ELSE <<>>) \o rows_from(st, i + 1)

Library_get_all(st) == rows_from(st, 1)

\* Library::get_one: the visible row of that id, or an error.
Library_get_one(st, id) ==
    IF id \in LibIds /\ st.library[id].present /\ ~st.library[id].hidden
    THEN [ok |-> TRUE, id |-> id, name |-> st.library[id].name]
    ELSE [ok |-> FALSE, id |-> id, name |-> 0]

\* x.sort_by(|a, b| a.name.cmp(&b.name)): a stable sort.
RECURSIVE sort_by_name(_)
sort_by_name(x) ==
    IF Len(x) <= 1 THEN x
    ELSE LET rest == sort_by_name(Tail(x))
             k    == Cardinality({i \in 1..Len(rest) : rest[i].name < Head(x).name})
         IN  SubSeq(rest, 1, k) \o <<Head(x)>> \o SubSeq(rest, k + 1, Len(rest))

\* The list as Library::get_all gives it, not sorted.
library_get_unsorted(st) == Library_get_all(st)

\* GET /api/v1/library
library_get(st) == sort_by_name(Library_get_all(st))

\* GET /api/v1/library/<id>
get_self(st, id) == Library_get_one(st, id)

\* GET /api/v1/library/<id>/media: the library's media that are no episodes,
\* under the library's name; an error when get_one finds no library.
get_all_library(st, id) ==
    LET lib == Library_get_one(st, id) IN
    IF ~lib.ok THEN [ok |-> FALSE, name |-> 0, data |-> {}]
    ELSE [ok |-> TRUE, name |-> lib.name,
          data |-> {m \in st.media : m.library_id = id /\ m.media_type # "episode"}]

\* GET /api/v1/library/<id>/unmatched: the media files of that library_id whose
\* media_id is NULL.  The query reads the mediafile table alone.
get_all_unmatched_media(st, id) ==
    {m \in st.mediafile : m.library_id = id /\ m.media_id = 0}

\* ---------------------------------------------------------- event channel
Message(id, event_type) == [id |-> id, event_type |-> event_type]

\* EventTx::send: every open subscriber with room gets the message; a send to
\* no subscriber at all reports an error to the sender.
send_result(chan) == IF \E s \in Sub : chan[s].open THEN "Ok" ELSE "Err"

send(chan, msg) ==
    [s \in Sub |->
        IF chan[s].open /\ Len(chan[s].buf) < BufCap
        THEN [chan[s] EXCEPT !.buf = Append(@, msg)]
        ELSE chan[s]]

\* history: which subscribers a send reaches, and which it finds full
reached(chan) ==
    [done |-> TRUE,
     to   |-> {s \in Sub : chan[s].open /\ Len(chan[s].buf) < BufCap},
     full |-> {s \in Sub : chan[s].open /\ Len(chan[s].buf) >= BufCap}]

Unsent == [done |-> FALSE, to |-> {}, full |-> {}]

\* history: the library row as a transaction finds it
row_state(st, id) ==
    IF id \notin LibIds \/ ~st.library[id].present THEN "none"
    ELSE IF st.library[id].hidden THEN "hidden" ELSE "visible"

\* ------------------------------------------------------------- the handlers
Ops == [kind : {"post"}, name : Names, id : {0}]
       \cup [kind : {"delete"}, name : {0}, id : LibIds]

InitialStores == {EmptyStore, SeededStore}

\* No call of the hasher is followed.
HasherOff ==
    /\ salt = <<>> /\ secret = <<>> /\ attempted_password = <<>>
    /\ stored = <<>> /\ outcome = "none" /\ hpc = "off"

\* No sequence of calls on the accounts is followed.
Call(name, u, p, t, res, n) ==
    [call |-> name, username |-> u, password |-> p, token |-> t, result |-> res, count |-> n]
NoCall == Call("none", <<>>, <<>>, 0, "none", 0)
NoSecret == <<255>>

AccountsOff ==
    /\ last = NoCall /\ nops = 0 /\ issued = {}
    /\ accepted = [t \in Tokens |-> 0]
    /\ plain = [u \in Usernames |-> NoSecret]

\* No GET request is followed.
Readers == {1, 2}
NoReply == [status |-> "none", body |-> <<>>]
NothingSeen == [writer |-> FALSE, readers |-> FALSE]

ReadersOff ==
    /\ rdop = [k \in Readers |-> [kind |-> "library_get", id |-> 0]]
    /\ rdpc = [k \in Readers |-> "off"]
    /\ rdret = [k \in Readers |-> NoReply]
    /\ rdsaw = [k \in Readers |-> NothingSeen]

Init ==
    /\ db \in InitialStores
    /\ tx = NoTx
    /\ writer = Free
    /\ op \in [Req -> Ops]
    \* the store can hand out MaxLib ids
    /\ Cardinality({r \in Req : op[r].kind = "post"}) + db.next_id - 1 <= MaxLib
    /\ pc = [r \in Req |-> "lock"]
    /\ ret = [r \in Req |-> "none"]
    /\ newid = [r \in Req |-> 0]
    /\ count = [r \in Req |-> -1]
    /\ wpc = [r \in Req |-> "none"]
    /\ spc = [r \in Req |-> "none"]
    /\ rx = [s \in Sub |-> [open |-> FALSE, buf |-> <<>>]]
    /\ seen = [r \in Req |-> "unset"]
    /\ attempts = [r \in Req |-> 0]
    /\ sent = [r \in Req |-> Unsent]
    /\ HasherOff
    /\ AccountsOff
    /\ ReadersOff

\* A handler leaving with its lock guard and its transaction leaked.
Return_holding(r, e) ==
    /\ pc' = [pc EXCEPT ![r] = "done"]
    /\ ret' = [ret EXCEPT ![r] = e]
    /\ UNCHANGED <<tx, writer>>

\* A handler leaves through `?` or an early return: its transaction is dropped
\* uncommitted (rolled back) and its lock guard is dropped.
Return(r, e) ==
    /\ pc' = [pc EXCEPT ![r] = "done"]
    /\ ret' = [ret EXCEPT ![r] = e]
    /\ tx' = NoTx
    /\ writer' = Free

\* conn.writer().lock_owned().await
lock_owned(p) ==
    /\ writer = Free
    /\ writer' = p

\* ---- library_delete
delete_lock(r) ==
    /\ op[r].kind = "delete" /\ pc[r] = "lock"
    /\ lock_owned(request(r))
    /\ pc' = [pc EXCEPT ![r] = "write_tx"]
    /\ UNCHANGED <<db, tx, op, ret, newid, count, wpc, spc, rx, seen, attempts, sent, hasher, accounts, readers>>

delete_write_tx(r) ==
    /\ op[r].kind = "delete" /\ pc[r] = "write_tx"
    /\ \/ /\ tx' = [open |-> TRUE, st |-> db]
          /\ pc' = [pc EXCEPT ![r] = "mark_hidden"]
          /\ UNCHANGED <<writer, ret>>
       \/ Return(r, "DatabaseError")
    /\ UNCHANGED <<db, op, newid, count, wpc, spc, rx, seen, attempts, sent, hasher, accounts, readers>>

\* library_delete going on whatever mark_hidden counted.
delete_mark_hidden_unchecked(r) ==
    /\ op[r].kind = "delete" /\ pc[r] = "mark_hidden"
    /\ \/ LET res == mark_hidden(tx.st, op[r].id) IN
          /\ count' = [count EXCEPT ![r] = res.count]
          /\ seen' = [seen EXCEPT ![r] = row_state(tx.st, op[r].id)]
          /\ tx' = [tx EXCEPT !.st = res.st]
          /\ pc' = [pc EXCEPT ![r] = "commit"]
          /\ UNCHANGED <<writer, ret>>
       \/ /\ Return(r, "DatabaseError")
          /\ UNCHANGED <<count, seen>>
    /\ UNCHANGED <<db, op, newid, wpc, spc, rx, attempts, sent, hasher, accounts, readers>>

delete_mark_hidden(r) ==
    /\ op[r].kind = "delete" /\ pc[r] = "mark_hidden"
    /\ \/ LET res == mark_hidden(tx.st, op[r].id) IN
          /\ count' = [count EXCEPT ![r] = res.count]
          /\ seen' = [seen EXCEPT ![r] = row_state(tx.st, op[r].id)]
          /\ IF res.count < 1
             THEN Return(r, "LibraryNotFound")
             ELSE /\ tx' = [tx EXCEPT !.st = res.st]
                  /\ pc' = [pc EXCEPT ![r] = "commit"]
                  /\ UNCHANGED <<writer, ret>>
       \/ /\ Return(r, "DatabaseError")
          /\ UNCHANGED <<count, seen>>
    /\ UNCHANGED <<db, op, newid, wpc, spc, rx, attempts, sent, hasher, accounts, readers>>

\* library_delete going on without committing its transaction.
delete_commit_forgotten(r) ==
    /\ op[r].kind = "delete" /\ pc[r] = "commit"
    /\ tx' = NoTx
    /\ pc' = [pc EXCEPT ![r] = "drop"]
    /\ UNCHANGED <<db, writer, ret, op, newid, count, wpc, spc, rx, seen, attempts, sent, hasher, accounts, readers>>

delete_commit(r) ==
    /\ op[r].kind = "delete" /\ pc[r] = "commit"
    /\ \/ /\ db' = tx.st
          /\ tx' = NoTx
          /\ pc' = [pc EXCEPT ![r] = "drop"]
          /\ UNCHANGED <<writer, ret>>
       \/ /\ Return(r, "DatabaseError")
          /\ UNCHANGED db
    /\ UNCHANGED <<op, newid, count, wpc, spc, rx, seen, attempts, sent, hasher, accounts, readers>>

\* library_delete keeping its lock guard until it returns.
delete_drop_held(r) ==
    /\ op[r].kind = "delete" /\ pc[r] = "drop"
    /\ pc' = [pc EXCEPT ![r] = "send"]
    /\ UNCHANGED <<db, tx, writer, op, ret, newid, count, wpc, spc, rx, seen, attempts, sent, hasher, accounts, readers>>

delete_drop(r) ==
    /\ op[r].kind = "delete" /\ pc[r] = "drop"
    /\ writer' = Free
    /\ pc' = [pc EXCEPT ![r] = "send"]
    /\ UNCHANGED <<db, tx, op, ret, newid, count, wpc, spc, rx, seen, attempts, sent, hasher, accounts, readers>>

\* library_delete propagating the error of a send nobody received.
delete_send_checked(r) ==
    /\ op[r].kind = "delete" /\ pc[r] = "send"
    /\ rx' = send(rx, Message(op[r].id, "EventRemoveLibrary"))
    /\ sent' = [sent EXCEPT ![r] = reached(rx)]
    /\ IF send_result(rx) = "Err"
       THEN Return(r, "SendError")
       ELSE /\ pc' = [pc EXCEPT ![r] = "spawn"]
            /\ UNCHANGED <<tx, writer, ret>>
    /\ UNCHANGED <<db, op, newid, count, wpc, spc, seen, attempts, hasher, accounts, readers>>

\* library_delete going on to the spawn without publishing.
delete_send_unpublished(r) ==
    /\ op[r].kind = "delete" /\ pc[r] = "send"
    /\ pc' = [pc EXCEPT ![r] = "spawn"]
    /\ UNCHANGED <<db, tx, writer, op, ret, newid, count, wpc, spc, rx, seen, attempts, sent, hasher, accounts, readers>>

delete_send(r) ==
    /\ op[r].kind = "delete" /\ pc[r] = "send"
    /\ rx' = send(rx, Message(op[r].id, "EventRemoveLibrary"))
    /\ sent' = [sent EXCEPT ![r] = reached(rx)]
    /\ pc' = [pc EXCEPT ![r] = "spawn"]
    /\ UNCHANGED <<db, tx, writer, op, ret, newid, count, wpc, spc, seen, attempts, hasher, accounts, readers>>

\* library_delete returning without spawning delete_lib_fut.
delete_spawn_forgotten(r) ==
    /\ op[r].kind = "delete" /\ pc[r] = "spawn"
    /\ pc' = [pc EXCEPT ![r] = "done"]
    /\ ret' = [ret EXCEPT ![r] = "NoContent"]
    /\ UNCHANGED <<db, tx, writer, op, newid, count, wpc, spc, rx, seen, attempts, sent, hasher, accounts, readers>>

delete_spawn(r) ==
    /\ op[r].kind = "delete" /\ pc[r] = "spawn"
    /\ wpc' = [wpc EXCEPT ![r] = "lock"]
    /\ pc' = [pc EXCEPT ![r] = "done"]
    /\ ret' = [ret EXCEPT ![r] = "NoContent"]
    /\ UNCHANGED <<db, tx, writer, op, newid, count, spc, rx, seen, attempts, sent, hasher, accounts, readers>>

\* ---- library_post
post_lock(r) ==
    /\ op[r].kind = "post" /\ pc[r] = "lock"
    /\ lock_owned(request(r))
    /\ pc' = [pc EXCEPT ![r] = "write_tx"]
    /\ UNCHANGED <<db, tx, op, ret, newid, count, wpc, spc, rx, seen, attempts, sent, hasher, accounts, readers>>

post_write_tx(r) ==
    /\ op[r].kind = "post" /\ pc[r] = "write_tx"
    /\ \/ /\ tx' = [open |-> TRUE, st |-> db]
          /\ pc' = [pc EXCEPT ![r] = "insert"]
          /\ UNCHANGED <<writer, ret>>
       \/ Return(r, "DatabaseError")
    /\ UNCHANGED <<db, op, newid, count, wpc, spc, rx, seen, attempts, sent, hasher, accounts, readers>>

post_insert(r) ==
    /\ op[r].kind = "post" /\ pc[r] = "insert"
    /\ \/ LET res == library_insert(tx.st, op[r].name) IN
          /\ newid' = [newid EXCEPT ![r] = res.id]
          /\ tx' = [tx EXCEPT !.st = res.st]
          /\ pc' = [pc EXCEPT ![r] = "commit"]
          /\ UNCHANGED <<writer, ret>>
       \/ /\ Return(r, "DatabaseError")
          /\ UNCHANGED newid
    /\ UNCHANGED <<db, op, count, wpc, spc, rx, seen, attempts, sent, hasher, accounts, readers>>

post_commit(r) ==
    /\ op[r].kind = "post" /\ pc[r] = "commit"
    /\ \/ /\ db' = tx.st
          /\ tx' = NoTx
          /\ pc' = [pc EXCEPT ![r] = "drop"]
          /\ UNCHANGED <<writer, ret>>
       \/ /\ Return(r, "DatabaseError")
          /\ UNCHANGED db
    /\ UNCHANGED <<op, newid, count, wpc, spc, rx, seen, attempts, sent, hasher, accounts, readers>>

post_drop(r) ==
    /\ op[r].kind = "post" /\ pc[r] = "drop"
    /\ writer' = Free
    /\ pc' = [pc EXCEPT ![r] = "spawn"]
    /\ UNCHANGED <<db, tx, op, ret, newid, count, wpc, spc, rx, seen, attempts, sent, hasher, accounts, readers>>

post_spawn(r) ==
    /\ op[r].kind = "post" /\ pc[r] = "spawn"
    /\ spc' = [spc EXCEPT ![r] = "spawned"]
    /\ pc' = [pc EXCEPT ![r] = "send"]
    /\ UNCHANGED <<db, tx, writer, op, ret, newid, count, wpc, rx, seen, attempts, sent, hasher, accounts, readers>>

post_send(r) ==
    /\ op[r].kind = "post" /\ pc[r] = "send"
    /\ rx' = send(rx, Message(newid[r], "EventNewLibrary"))
    /\ sent' = [sent EXCEPT ![r] = reached(rx)]
    /\ pc' = [pc EXCEPT ![r] = "done"]
    /\ ret' = [ret EXCEPT ![r] = "Created"]
    /\ UNCHANGED <<db, tx, writer, op, newid, count, wpc, spc, seen, attempts, hasher, accounts, readers>>

\* scanners::start(conn, id, tx_clone): the scanner adds what it finds under the
\* library to the store, through the writer like every other mutation; a library
\* whose row is gone gets nothing.
scanner_run(r) ==
    /\ spc[r] = "spawned"
    /\ writer = Free
    /\ \E res \in ScanResults :
          db' = IF db.library[newid[r]].present
                THEN insert_scan(db, newid[r], res)
                ELSE db
    /\ spc' = [spc EXCEPT ![r] = "done"]
    /\ UNCHANGED <<tx, writer, op, pc, ret, newid, count, wpc, rx, seen, attempts, sent, hasher, accounts, readers>>

\* ---- the request's future is dropped (client gone, timeout) at an await
AwaitPoints == {"lock", "write_tx", "mark_hidden", "invite_token_valid", "insert", "commit"}

\* A dropped future whose lock guard and transaction are not dropped with it.
cancel_keeping_lock(r) ==
    /\ pc[r] \in AwaitPoints
    /\ pc' = [pc EXCEPT ![r] = "done"]
    /\ ret' = [ret EXCEPT ![r] = "Cancelled"]
    /\ UNCHANGED <<db, tx, writer, op, newid, count, wpc, spc, rx, seen, attempts, sent, hasher, accounts, readers>>

cancel(r) ==
    /\ pc[r] \in AwaitPoints
    /\ pc' = [pc EXCEPT ![r] = "done"]
    /\ IF writer = request(r)
       THEN /\ tx' = NoTx
            /\ writer' = Free
            \* dropped at `tx.commit().await`: the store may have committed
            \* already when the future that awaits its answer is dropped
            /\ \/ /\ ret' = [ret EXCEPT ![r] = "Cancelled"]
                  /\ UNCHANGED db
               \/ /\ pc[r] = "commit"
                  /\ db' = tx.st
                  /\ ret' = [ret EXCEPT ![r] = "CancelledAfterCommit"]
       ELSE /\ ret' = [ret EXCEPT ![r] = "Cancelled"]
            /\ UNCHANGED <<db, tx, writer>>
    /\ UNCHANGED <<op, newid, count, wpc, spc, rx, seen, attempts, sent, hasher, accounts, readers>>

\* ---- subscribers of the event channel
subscribe(s) ==
    /\ ~rx[s].open
    /\ rx' = [rx EXCEPT ![s] = [open |-> TRUE, buf |-> <<>>]]
    /\ UNCHANGED <<db, tx, writer, op, pc, ret, newid, count, wpc, spc, seen, attempts, sent, hasher, accounts, readers>>

recv(s) ==
    /\ rx[s].open /\ rx[s].buf # <<>>
    /\ rx' = [rx EXCEPT ![s].buf = Tail(@)]
    /\ UNCHANGED <<db, tx, writer, op, pc, ret, newid, count, wpc, spc, seen, attempts, sent, hasher, accounts, readers>>

unsubscribe(s) ==
    /\ rx[s].open
    /\ rx' = [rx EXCEPT ![s] = [open |-> FALSE, buf |-> <<>>]]
    /\ UNCHANGED <<db, tx, writer, op, pc, ret, newid, count, wpc, spc, seen, attempts, sent, hasher, accounts, readers>>

\* ---- delete_lib_fut, the task library_delete spawns
\* An error inside `inner` drops its transaction and its lock guard and is logged.
\* The cascade starting over after an error.
cascade_fail_retry(r) ==
    /\ wpc' = [wpc EXCEPT ![r] = "lock"]
    /\ tx' = NoTx
    /\ writer' = Free

cascade_fail(r) ==
    /\ wpc' = [wpc EXCEPT ![r] = "failed"]
    /\ tx' = NoTx
    /\ writer' = Free

\* The cascade opening its transaction without waiting for the writer lock.
cascade_lock_unlocked(r) ==
    /\ wpc[r] = "lock"
    /\ wpc' = [wpc EXCEPT ![r] = "write_tx"]
    /\ attempts' = [attempts EXCEPT ![r] = @ + 1]
    /\ UNCHANGED <<db, tx, writer, op, pc, ret, newid, count, spc, rx, seen, sent, hasher, accounts, readers>>

cascade_lock(r) ==
    /\ wpc[r] = "lock"
    /\ lock_owned(cascade(r))
    /\ wpc' = [wpc EXCEPT ![r] = "write_tx"]
    /\ attempts' = [attempts EXCEPT ![r] = @ + 1]
    /\ UNCHANGED <<db, tx, op, pc, ret, newid, count, spc, rx, seen, sent, hasher, accounts, readers>>

cascade_write_tx(r) ==
    /\ wpc[r] = "write_tx"
    /\ \/ /\ tx' = [open |-> TRUE, st |-> db]
          /\ wpc' = [wpc EXCEPT ![r] = "delete_library"]
          /\ UNCHANGED writer
       \/ cascade_fail(r)
    /\ UNCHANGED <<db, op, pc, ret, newid, count, spc, rx, seen, attempts, sent, hasher, accounts, readers>>

\* The cascade deleting the library row outside its transaction.
cascade_delete_library_autocommit(r) ==
    /\ wpc[r] = "delete_library"
    /\ \/ /\ db' = library_delete_row(db, op[r].id)
          /\ wpc' = [wpc EXCEPT ![r] = "delete_media"]
          /\ UNCHANGED <<tx, writer>>
       \/ /\ cascade_fail(r)
          /\ UNCHANGED db
    /\ UNCHANGED <<op, pc, ret, newid, count, spc, rx, seen, attempts, sent, hasher, accounts, readers>>

cascade_delete_library(r) ==
    /\ wpc[r] = "delete_library"
    /\ \/ /\ tx' = [tx EXCEPT !.st = library_delete_row(@, op[r].id)]
          /\ wpc' = [wpc EXCEPT ![r] = "delete_media"]
          /\ UNCHANGED writer
       \/ cascade_fail(r)
    /\ UNCHANGED <<db, op, pc, ret, newid, count, spc, rx, seen, attempts, sent, hasher, accounts, readers>>

cascade_delete_media(r) ==
    /\ wpc[r] = "delete_media"
    /\ \/ /\ tx' = [tx EXCEPT !.st = media_delete_by_lib_id(@, op[r].id)]
          /\ wpc' = [wpc EXCEPT ![r] = "delete_mediafile"]
          /\ UNCHANGED writer
       \/ cascade_fail(r)
    /\ UNCHANGED <<db, op, pc, ret, newid, count, spc, rx, seen, attempts, sent, hasher, accounts, readers>>

cascade_delete_mediafile(r) ==
    /\ wpc[r] = "delete_mediafile"
    /\ \/ /\ tx' = [tx EXCEPT !.st = mediafile_delete_by_lib_id(@, op[r].id)]
          /\ wpc' = [wpc EXCEPT ![r] = "commit"]
          /\ UNCHANGED writer
       \/ cascade_fail(r)
    /\ UNCHANGED <<db, op, pc, ret, newid, count, spc, rx, seen, attempts, sent, hasher, accounts, readers>>

cascade_commit(r) ==
    /\ wpc[r] = "commit"
    /\ \/ /\ db' = tx.st
          /\ tx' = NoTx
          /\ wpc' = [wpc EXCEPT ![r] = "drop"]
          /\ UNCHANGED writer
       \/ /\ cascade_fail(r)
          /\ UNCHANGED db
    /\ UNCHANGED <<op, pc, ret, newid, count, spc, rx, seen, attempts, sent, hasher, accounts, readers>>

cascade_drop(r) ==
    /\ wpc[r] = "drop"
    /\ writer' = Free
    /\ wpc' = [wpc EXCEPT ![r] = "deleted"]
    /\ UNCHANGED <<db, tx, op, pc, ret, newid, count, spc, rx, seen, attempts, sent, hasher, accounts, readers>>

\* ---- register(username, secret, inviteToken): the token is validated and the
\* account inserted in one writer transaction.
register_lock(r) ==
    /\ op[r].kind = "register" /\ pc[r] = "lock"
    /\ lock_owned(request(r))
    /\ pc' = [pc EXCEPT ![r] = "write_tx"]
    /\ UNCHANGED <<db, tx, op, ret, newid, count, wpc, spc, rx, seen, attempts, sent, hasher, accounts, readers>>

register_write_tx(r) ==
    /\ op[r].kind = "register" /\ pc[r] = "write_tx"
    /\ \/ /\ tx' = [open |-> TRUE, st |-> db]
          /\ pc' = [pc EXCEPT ![r] = "invite_token_valid"]
          /\ UNCHANGED <<writer, ret>>
       \/ Return(r, "DatabaseError")
    /\ UNCHANGED <<db, op, newid, count, wpc, spc, rx, seen, attempts, sent, hasher, accounts, readers>>

register_invite_token_valid(r) ==
    /\ op[r].kind = "register" /\ pc[r] = "invite_token_valid"
    /\ \/ /\ seen' = [seen EXCEPT ![r] = IF invite_token_valid(tx.st, op[r]) THEN "valid" ELSE "invalid"]
          /\ IF invite_token_valid(tx.st, op[r])
             THEN /\ pc' = [pc EXCEPT ![r] = "insert"]
                  /\ UNCHANGED <<tx, writer, ret>>
             ELSE Return(r, "InvalidToken")
       \/ /\ Return(r, "DatabaseError")
          /\ UNCHANGED seen
    /\ UNCHANGED <<db, op, newid, count, wpc, spc, rx, attempts, sent, hasher, accounts, readers>>

register_insert(r) ==
    /\ op[r].kind = "register" /\ pc[r] = "insert"
    /\ \/ LET res == InsertableUser_insert(tx.st, [username |-> op[r].username,
                                                    password |-> op[r].password,
                                                    claimed_invite |-> op[r].invite_token]) IN
          IF res.ok
          THEN /\ tx' = [tx EXCEPT !.st = res.st]
               /\ pc' = [pc EXCEPT ![r] = "commit"]
               /\ UNCHANGED <<writer, ret>>
          ELSE Return(r, "Conflict")
       \/ Return(r, "DatabaseError")
    /\ UNCHANGED <<db, op, newid, count, wpc, spc, rx, seen, attempts, sent, hasher, accounts, readers>>

register_commit(r) ==
    /\ op[r].kind = "register" /\ pc[r] = "commit"
    /\ \/ /\ db' = tx.st
          /\ tx' = NoTx
          /\ pc' = [pc EXCEPT ![r] = "drop"]
          /\ UNCHANGED <<writer, ret>>
       \/ /\ Return(r, "DatabaseError")
          /\ UNCHANGED db
    /\ UNCHANGED <<op, newid, count, wpc, spc, rx, seen, attempts, sent, hasher, accounts, readers>>

register_drop(r) ==
    /\ op[r].kind = "register" /\ pc[r] = "drop"
    /\ writer' = Free
    /\ pc' = [pc EXCEPT ![r] = "done"]
    /\ ret' = [ret EXCEPT ![r] = "Registered"]
    /\ UNCHANGED <<db, tx, op, newid, count, wpc, spc, rx, seen, attempts, sent, hasher, accounts, readers>>

Requests ==
    \E r \in Req :
        \/ delete_lock(r)
        \/ delete_write_tx(r)
        \/ delete_mark_hidden(r)
        \/ delete_commit(r)
        \/ delete_drop(r)
        \/ delete_send(r)
        \/ delete_spawn(r)
        \/ cascade_lock(r)
        \/ cascade_write_tx(r)
        \/ cascade_delete_library(r)
        \/ cascade_delete_media(r)
        \/ cascade_delete_mediafile(r)
        \/ cascade_commit(r)
        \/ cascade_drop(r)
        \/ post_lock(r)
        \/ post_write_tx(r)
        \/ post_insert(r)
        \/ post_commit(r)
        \/ post_drop(r)
        \/ post_spawn(r)
        \/ post_send(r)
        \/ scanner_run(r)
        \/ cancel(r)

Subscribers ==
    \E s \in Sub :
        \/ subscribe(s)
        \/ recv(s)
        \/ unsubscribe(s)

\* The library routes under concurrent requests; nobody listens to the events.
Next == Requests

Spec == Init /\ [][Next]_vars

\* The tokio runtime keeps polling the tasks that can run, the store answers
\* every call (with a result or an error), and the mutex is handed on when it
\* is dropped: some enabled step is always taken.
LiveInit ==
    /\ db \in InitialStores
    /\ tx = NoTx
    /\ writer = Free
    /\ op \in [Req -> Ops]
    /\ \A r \in Req : r > MaxLiveReq => op[r] = [kind |-> "delete", name |-> 0, id |-> 1]
    /\ Cardinality({r \in Req : r <= MaxLiveReq /\ op[r].kind = "post"}) + db.next_id - 1 <= MaxLib
    /\ pc = [r \in Req |-> IF r <= MaxLiveReq THEN "lock" ELSE "off"]
    /\ ret = [r \in Req |-> "none"]
    /\ newid = [r \in Req |-> 0]
    /\ count = [r \in Req |-> -1]
    /\ wpc = [r \in Req |-> "none"]
    /\ spc = [r \in Req |-> "none"]
    /\ rx = [s \in Sub |-> [open |-> FALSE, buf |-> <<>>]]
    /\ seen = [r \in Req |-> "unset"]
    /\ attempts = [r \in Req |-> 0]
    /\ sent = [r \in Req |-> Unsent]
    /\ HasherOff
    /\ AccountsOff
    /\ ReadersOff

LiveSpec == LiveInit /\ [][Next]_vars /\ WF_vars(Next)

\* The same routes with subscribers coming, reading and going.  A subscriber may
\* already hold messages of the other publisher on the channel, the scanner.
OtherMessage == Message(0, "Other")

EvInit ==
    /\ db \in InitialStores
    /\ tx = NoTx
    /\ writer = Free
    /\ op \in [Req -> Ops]
    /\ \A r \in Req : r > MaxEvReq => op[r] = [kind |-> "delete", name |-> 0, id |-> 1]
    /\ Cardinality({r \in Req : r <= MaxEvReq /\ op[r].kind = "post"}) + db.next_id - 1 <= MaxLib
    /\ pc = [r \in Req |-> IF r <= MaxEvReq THEN "lock" ELSE "off"]
    /\ ret = [r \in Req |-> "none"]
    /\ newid = [r \in Req |-> 0]
    /\ count = [r \in Req |-> -1]
    /\ wpc = [r \in Req |-> "none"]
    /\ spc = [r \in Req |-> "none"]
    /\ rx \in [Sub -> {[open |-> FALSE, buf |-> <<>>]}
                       \cup {[open |-> TRUE, buf |-> [i \in 1..k |-> OtherMessage]] : k \in 0..BufCap}]
    /\ seen = [r \in Req |-> "unset"]
    /\ attempts = [r \in Req |-> 0]
    /\ sent = [r \in Req |-> Unsent]
    /\ HasherOff
    /\ AccountsOff
    /\ ReadersOff

EvNext == Requests \/ Subscribers

EvSpec == EvInit /\ [][EvNext]_vars

\* ---- registrations racing for invites
RegOps == [kind : {"register"}, username : Usernames, password : {<<97>>},
           invite_token : {None} \cup Tokens]

\* The stores registrations start from: some tokens issued, and no account yet
\* or the account "b", which claimed the token issued last.
IssuedStores ==
    {new_invite(EmptyStore, 1), new_invite(new_invite(EmptyStore, 1), 2)}

RegStores ==
    IssuedStores \cup
    {InsertableUser_insert(st, [username |-> <<98>>, password |-> <<97, 97>>,
                                claimed_invite |-> Cardinality(st.invites)]).st : st \in IssuedStores}

RegInit ==
    /\ db \in RegStores
    /\ tx = NoTx
    /\ writer = Free
    /\ op \in [Req -> RegOps]
    /\ pc = [r \in Req |-> "lock"]
    /\ ret = [r \in Req |-> "none"]
    /\ newid = [r \in Req |-> 0]
    /\ count = [r \in Req |-> -1]
    /\ wpc = [r \in Req |-> "none"]
    /\ spc = [r \in Req |-> "none"]
    /\ rx = [s \in Sub |-> [open |-> FALSE, buf |-> <<>>]]
    /\ seen = [r \in Req |-> "unset"]
    /\ attempts = [r \in Req |-> 0]
    /\ sent = [r \in Req |-> Unsent]
    /\ HasherOff
    /\ AccountsOff
    /\ ReadersOff

RegNext ==
    \E r \in Req :
        \/ register_lock(r)
        \/ register_write_tx(r)
        \/ register_invite_token_valid(r)
        \/ register_insert(r)
        \/ register_commit(r)
        \/ register_drop(r)
        \/ cancel(r)

RegSpec == RegInit /\ [][RegNext]_vars

\* ------------------------------------------------------ the hasher's calls
\* No request is followed on the routes.
RoutesOff ==
    /\ tx = NoTx
    /\ writer = Free
    /\ pc = [r \in Req |-> "off"]
    /\ ret = [r \in Req |-> "none"]
    /\ newid = [r \in Req |-> 0]
    /\ count = [r \in Req |-> -1]
    /\ wpc = [r \in Req |-> "none"]
    /\ spc = [r \in Req |-> "none"]
    /\ rx = [s \in Sub |-> [open |-> FALSE, buf |-> <<>>]]
    /\ seen = [r \in Req |-> "unset"]
    /\ attempts = [r \in Req |-> 0]
    /\ sent = [r \in Req |-> Unsent]

routes == <<db, tx, writer, op, pc, ret, newid, count, wpc, spc, rx, seen, attempts, sent>>

\* hash and verify are pure functions: a salt, a secret and an attempted secret
\* are drawn, the secret is hashed and the text stored, and the attempt is
\* verified against what is stored.
HashInit ==
    /\ db = EmptyStore
    /\ op = [r \in Req |-> [kind |-> "delete", name |-> 0, id |-> 1]]
    /\ RoutesOff
    /\ salt \in Strings(MaxSalt)
    /\ secret \in Strings(MaxLen)
    /\ attempted_password \in Strings(MaxLen)
    /\ stored = <<>>
    /\ outcome = "none"
    /\ hpc = "hash"
    /\ AccountsOff
    /\ ReadersOff

\* let password = hash(username.clone(), password), as insert and set_password
\* do before they store it
hash_call ==
    /\ hpc = "hash"
    /\ stored' = hash(salt, secret)
    /\ hpc' = "verify"
    /\ UNCHANGED <<routes, salt, secret, attempted_password, outcome, accounts, readers>>

\* Texts in the password column that hash did not write: the digest with a
\* character that is not base64, the digest cut short, a text that is no
\* base64 at all; and, validly encoded, the empty text and the first byte of
\* the credential alone.
OtherTexts(text) ==
    { [text EXCEPT ![1] = Bang],
      [text EXCEPT ![Len(text)] = Bang],
      SubSeq(text, 1, Len(text) - 3),
      <<Bang, Bang, Bang, Bang>>,
      <<>>,
      base64_encode(SubSeq(base64_decode(text).bytes, 1, 1)) }

\* The password column is a String: the store holds whatever was put there.
store_other ==
    /\ hpc = "verify"
    /\ stored = hash(salt, secret)
    /\ \E text \in OtherTexts(stored) : stored' = text
    /\ UNCHANGED <<routes, salt, secret, attempted_password, outcome, hpc, accounts, readers>>

verify_call ==
    /\ hpc = "verify"
    /\ outcome' = verify(salt, stored, attempted_password)
    /\ hpc' = "done"
    /\ UNCHANGED <<routes, salt, secret, attempted_password, stored, accounts, readers>>

HashNext ==
    \/ hash_call
    \/ store_other
    \/ verify_call

HashSpec == HashInit /\ [][HashNext]_vars

\* ---- sequences of calls on the accounts and invites
\* Every call runs in a writer transaction of its own that it commits: the calls
\* come one after another.  A call that fails leaves the store as it was.
Secrets == {<<97>>, <<97, 97>>}

idle == <<tx, writer, op, pc, ret, newid, count, wpc, spc, rx, seen, attempts, sent, hasher, readers>>

AcctInit ==
    /\ db \in {EmptyStore} \cup RegStores
    /\ op = [r \in Req |-> [kind |-> "delete", name |-> 0, id |-> 1]]
    /\ RoutesOff
    /\ HasherOff
    /\ last = NoCall
    /\ nops = 0
    /\ issued = db.invites
    /\ accepted = [t \in Tokens |-> Cardinality({u \in db.users : u.claimed_invite = t})]
    /\ plain = [n \in Usernames |->
                  IF \E u \in db.users : u.username = n THEN <<97, 97>> ELSE NoSecret]
    /\ ReadersOff

\* issueInvite: a token never made before
issue_invite ==
    /\ nops < MaxOps
    /\ \E t \in Tokens \ issued :
          /\ db' = new_invite(db, t)
          /\ issued' = issued \cup {t}
          /\ last' = Call("new_invite", <<>>, <<>>, t, "Ok", 1)
    /\ nops' = nops + 1
    /\ UNCHANGED <<idle, accepted, plain>>

\* register: the token is validated and the account inserted
register_account ==
    /\ nops < MaxOps
    /\ \E login \in RegOps :
          LET u == login.username
              t == login.invite_token
              res == InsertableUser_insert(db, [username |-> u, password |-> login.password,
                                                claimed_invite |-> t])
          IN  IF ~invite_token_valid(db, login)
              THEN /\ last' = Call("register", u, login.password, t, "InvalidToken", 0)
                   /\ UNCHANGED <<db, accepted, plain>>
              ELSE IF ~res.ok
              THEN /\ last' = Call("register", u, login.password, t, "Conflict", 0)
                   /\ UNCHANGED <<db, accepted, plain>>
              ELSE /\ db' = res.st
                   /\ accepted' = [accepted EXCEPT ![t] = @ + 1]
                   /\ plain' = [plain EXCEPT ![u] = login.password]
                   /\ last' = Call("register", u, login.password, t, "Registered", 1)
    /\ nops' = nops + 1
    /\ UNCHANGED <<idle, issued>>

\* account removal: User::delete
delete_account ==
    /\ nops < MaxOps
    /\ \E u \in Usernames :
          LET res == User_delete(db, u) IN
          /\ db' = res.st
          /\ plain' = [plain EXCEPT ![u] = NoSecret]
          /\ last' = Call("delete", u, <<>>, 0, "Ok", res.count)
    /\ nops' = nops + 1
    /\ UNCHANGED <<idle, issued, accepted>>

\* rename: User::set_username
rename_account ==
    /\ nops < MaxOps
    /\ \E old, new \in Usernames :
          LET res == User_set_username(db, old, new) IN
          /\ db' = res.st
          /\ plain' = IF res.ok /\ res.count = 1 /\ old # new
                       THEN [plain EXCEPT ![new] = plain[old], ![old] = NoSecret]
                       ELSE plain
          /\ last' = Call("set_username", old, new, 0, IF res.ok THEN "Ok" ELSE "Conflict", res.count)
    /\ nops' = nops + 1
    /\ UNCHANGED <<idle, issued, accepted>>

\* password reset: User::set_password on the account the caller is logged in as
reset_password ==
    /\ nops < MaxOps
    /\ \E self \in db.users : \E p \in Secrets :
          LET res == User_set_password(db, self.username, p) IN
          /\ db' = res.st
          /\ plain' = [plain EXCEPT ![self.username] = p]
          /\ last' = Call("set_password", self.username, p, 0, "Ok", res.count)
    /\ nops' = nops + 1
    /\ UNCHANGED <<idle, issued, accepted>>

\* revokeInvite: Login::delete_token
revoke_invite ==
    /\ nops < MaxOps
    /\ \E t \in Tokens :
          LET res == delete_token(db, t) IN
          /\ db' = res.st
          /\ last' = Call("delete_token", <<>>, <<>>, t, "Ok", res.count)
    /\ nops' = nops + 1
    /\ UNCHANGED <<idle, issued, accepted, plain>>

\* invalidate: Login::invalidate_token
invalidate_invite ==
    /\ nops < MaxOps
    /\ \E t \in {None} \cup Tokens :
          LET res == invalidate_token(db, [invite_token |-> t]) IN
          /\ db' = res.st
          /\ last' = Call("invalidate_token", <<>>, <<>>, t, "Ok", res.count)
    /\ nops' = nops + 1
    /\ UNCHANGED <<idle, issued, accepted, plain>>

\* isValidAndUnclaimed: Login::invite_token_valid
check_invite ==
    /\ nops < MaxOps
    /\ \E t \in {None} \cup Tokens :
          last' = Call("invite_token_valid", <<>>, <<>>, t,
                       IF invite_token_valid(db, [invite_token |-> t]) THEN "true" ELSE "false", 0)
    /\ nops' = nops + 1
    /\ UNCHANGED <<db, idle, issued, accepted, plain>>

\* authenticate: User::get_one
authenticate ==
    /\ nops < MaxOps
    /\ \E u \in Usernames : \E p \in Secrets :
          last' = Call("get_one", u, p, 0,
                       IF User_get_one(db, u, p).ok THEN "Ok" ELSE "RowNotFound", 0)
    /\ nops' = nops + 1
    /\ UNCHANGED <<db, idle, issued, accepted, plain>>

AcctNext ==
    \/ issue_invite
    \/ register_account
    \/ delete_account
    \/ rename_account
    \/ reset_password
    \/ revoke_invite
    \/ invalidate_invite
    \/ check_invite
    \/ authenticate

AcctSpec == AcctInit /\ [][AcctNext]_vars

\* ---- GET requests beside the writers
\* library_get, get_self and get_all_library take `conn.read().begin()`: a
\* transaction of the read pool.  None of them takes `conn.writer()`.
ReadOps == [kind : {"library_get"}, id : {0}]
           \cup [kind : {"get_self", "get_all_library"}, id : LibIds]

Reading(k) == rdpc[k] = "query"

\* A reader that queues behind the writer mutex.
read_begin_locked(k) ==
    /\ rdpc[k] = "begin"
    /\ writer = Free
    /\ rdpc' = [rdpc EXCEPT ![k] = "query"]
    /\ rdsaw' = [rdsaw EXCEPT ![k] = [writer |-> tx.open,
                                      readers |-> \E j \in Readers \ {k} : Reading(j)]]
    /\ UNCHANGED <<routes, hasher, accounts, rdop, rdret>>

\* let mut tx = conn.read().begin().await?
read_begin(k) ==
    /\ rdpc[k] = "begin"
    /\ \/ /\ rdpc' = [rdpc EXCEPT ![k] = "query"]
          /\ rdsaw' = [rdsaw EXCEPT ![k] = [writer |-> tx.open,
                                            readers |-> \E j \in Readers \ {k} : Reading(j)]]
          /\ UNCHANGED rdret
       \/ /\ rdpc' = [rdpc EXCEPT ![k] = "done"]
          /\ rdret' = [rdret EXCEPT ![k] = [status |-> "DatabaseError", body |-> <<>>]]
          /\ UNCHANGED rdsaw
    /\ UNCHANGED <<routes, hasher, accounts, rdop>>

\* The queries of the handler on its transaction, and its reply.  The
\* transaction reads the committed store: what an open write transaction has
\* not committed is not in it.
read_query(k) ==
    /\ rdpc[k] = "query"
    /\ rdpc' = [rdpc EXCEPT ![k] = "done"]
    /\ rdret' = [rdret EXCEPT ![k] =
          CASE rdop[k].kind = "library_get" ->
                 [status |-> "Ok", body |-> library_get(db)]
            [] rdop[k].kind = "get_self" ->
                 LET lib == get_self(db, rdop[k].id) IN
                 IF lib.ok THEN [status |-> "Ok", body |-> <<lib>>]
                 ELSE [status |-> "NotFoundError", body |-> <<>>]
            [] rdop[k].kind = "get_all_library" ->
                 LET res == get_all_library(db, rdop[k].id) IN
                 IF res.ok THEN [status |-> "Ok", body |-> <<res>>]
                 ELSE [status |-> "NotFoundError", body |-> <<>>]]
    /\ UNCHANGED <<routes, hasher, accounts, rdop, rdsaw>>

\* One request writes beside the readers.
Writing == {1}

ReadInit ==
    /\ db \in InitialStores
    /\ tx = NoTx
    /\ writer = Free
    /\ op \in [Req -> Ops]
    /\ \A r \in Req : r \notin Writing => op[r] = [kind |-> "delete", name |-> 0, id |-> 1]
    /\ Cardinality({r \in Req : r \in Writing /\ op[r].kind = "post"}) + db.next_id - 1 <= MaxLib
    /\ pc = [r \in Req |-> IF r \in Writing THEN "lock" ELSE "off"]
    /\ ret = [r \in Req |-> "none"]
    /\ newid = [r \in Req |-> 0]
    /\ count = [r \in Req |-> -1]
    /\ wpc = [r \in Req |-> "none"]
    /\ spc = [r \in Req |-> "none"]
    /\ rx = [s \in Sub |-> [open |-> FALSE, buf |-> <<>>]]
    /\ seen = [r \in Req |-> "unset"]
    /\ attempts = [r \in Req |-> 0]
    /\ sent = [r \in Req |-> Unsent]
    /\ HasherOff
    /\ AccountsOff
    /\ rdop \in [Readers -> ReadOps]
    /\ rdpc = [k \in Readers |-> "begin"]
    /\ rdret = [k \in Readers |-> NoReply]
    /\ rdsaw = [k \in Readers |-> NothingSeen]

GetRequests ==
    \E k \in Readers :
        \/ read_begin(k)
        \/ read_query(k)

ReadNext == Requests \/ GetRequests

ReadSpec == ReadInit /\ [][ReadNext]_vars

\* ---- a create request, a second request and the subscribers
\* Request 1 creates a library; request 2 creates another or deletes one, maybe
\* the new one; subscribers come, read and go.
Creating == {1, 2}

PostInit ==
    /\ db \in InitialStores
    /\ tx = NoTx
    /\ writer = Free
    /\ op \in [Req -> Ops]
    /\ op[1].kind = "post"
    /\ \A r \in Req : r \notin Creating => op[r] = [kind |-> "delete", name |-> 0, id |-> 1]
    /\ Cardinality({r \in Req : r \in Creating /\ op[r].kind = "post"}) + db.next_id - 1 <= MaxLib
    /\ pc = [r \in Req |-> IF r \in Creating THEN "lock" ELSE "off"]
    /\ ret = [r \in Req |-> "none"]
    /\ newid = [r \in Req |-> 0]
    /\ count = [r \in Req |-> -1]
    /\ wpc = [r \in Req |-> "none"]
    /\ spc = [r \in Req |-> "none"]
    /\ rx \in [Sub -> {[open |-> FALSE, buf |-> <<>>], [open |-> TRUE, buf |-> <<>>]}]
    /\ seen = [r \in Req |-> "unset"]
    /\ attempts = [r \in Req |-> 0]
    /\ sent = [r \in Req |-> Unsent]
    /\ HasherOff
    /\ AccountsOff
    /\ ReadersOff

PostNext == Requests \/ Subscribers

PostSpec == PostInit /\ [][PostNext]_vars

\* ---- two requests contending for the writer lock, under fair scheduling
\* The runtime keeps polling the tasks that can run, the store answers every
\* call, and the mutex is handed on when it is dropped.
Contending == {1, 2}

LockInit ==
    /\ db \in InitialStores
    /\ tx = NoTx
    /\ writer = Free
    /\ op \in [Req -> Ops]
    /\ \A r \in Req : r \notin Contending => op[r] = [kind |-> "delete", name |-> 0, id |-> 1]
    /\ Cardinality({r \in Req : r \in Contending /\ op[r].kind = "post"}) + db.next_id - 1 <= MaxLib
    /\ pc = [r \in Req |-> IF r \in Contending THEN "lock" ELSE "off"]
    /\ ret = [r \in Req |-> "none"]
    /\ newid = [r \in Req |-> 0]
    /\ count = [r \in Req |-> -1]
    /\ wpc = [r \in Req |-> "none"]
    /\ spc = [r \in Req |-> "none"]
    /\ rx = [s \in Sub |-> [open |-> FALSE, buf |-> <<>>]]
    /\ seen = [r \in Req |-> "unset"]
    /\ attempts = [r \in Req |-> 0]
    /\ sent = [r \in Req |-> Unsent]
    /\ HasherOff
    /\ AccountsOff
    /\ ReadersOff

LockSpec == LockInit /\ [][Next]_vars /\ WF_vars(Next)

\* ================================================================ claims
Deleters(id) == {r \in Req : op[r].kind = "delete" /\ op[r].id = id}

\* The processes that have taken the writer lock and not yet dropped it.
Holders ==
    {request(r) : r \in {q \in Req : pc[q] \in {"write_tx", "mark_hidden", "insert", "commit", "drop"}}}
    \cup {cascade(r) : r \in {q \in Req : wpc[q] \in {"write_tx", "delete_library", "delete_media",
                                                       "delete_mediafile", "commit", "drop"}}}

\* C1: under every interleaving of create requests, delete requests and cascade
\* tasks, at most one of them holds the writer lock (an open writer transaction)
\* at any instant, and an open transaction always belongs to that holder.
C1_MutualExclusion ==
    /\ Cardinality(Holders) <= 1
    /\ tx.open => Holders # {}
    /\ \A h \in Holders : writer = h

\* C1 witness: a request inside its transaction while the cascade task of an
\* earlier delete waits for the lock.
C1_Contended ==
    /\ tx.open /\ Cardinality(Holders) = 1
    /\ \E r \in Req : writer = request(r)
    /\ \E r \in Req : wpc[r] = "lock"

\* The delete requests of id whose mark_hidden ran on an existing row.
OnExisting(id) == {r \in Deleters(id) : seen[r] \in {"visible", "hidden"}}

Failed(r) == ret[r] \in {"DatabaseError", "Cancelled", "CancelledAfterCommit"}

\* C2: among the delete requests that call mark_hidden on the same existing
\* library, mark_hidden counts 0 or 1; at most one request returns success and a
\* request that got 0 returns LibraryNotFound; and once all of them are done,
\* none ended by a store error or a cancellation, exactly one got 1 and returned
\* success and every other got 0 and returned LibraryNotFound.
C2_ExactlyOneHides ==
    \A id \in LibIds :
        LET D == OnExisting(id) IN
        /\ \A r \in D : count[r] \in {0, 1}
        /\ Cardinality({r \in Deleters(id) : ret[r] = "NoContent"}) <= 1
        /\ \A r \in D : pc[r] = "done" /\ count[r] = 0 => ret[r] = "LibraryNotFound"
        /\ (D # {} /\ \A r \in D : pc[r] = "done" /\ ~Failed(r))
              => \E w \in D :
                    /\ count[w] = 1 /\ ret[w] = "NoContent"
                    /\ \A r \in D \ {w} : count[r] = 0 /\ ret[r] = "LibraryNotFound"

\* C2 witness: two delete requests of one visible library have both finished, one
\* with success and one with LibraryNotFound.
C2_TwoDeleters ==
    \E id \in LibIds : \E w, r \in OnExisting(id) :
        /\ w # r /\ pc[w] = "done" /\ pc[r] = "done"
        /\ seen[w] = "visible" /\ ret[w] = "NoContent"
        /\ seen[r] = "hidden" /\ ret[r] = "LibraryNotFound"

Succeeded(id) == \E r \in Deleters(id) : ret[r] = "NoContent"

\* C3: once a delete of id has returned success, the library listing does not
\* contain id and the media listing and the unmatched listing of id return none
\* of its records, cascade run or not.
C3_HiddenFromReads ==
    \A id \in LibIds :
        Succeeded(id) =>
            /\ \A i \in 1..Len(library_get(db)) : library_get(db)[i].id # id
            /\ ~get_self(db, id).ok
            /\ get_all_library(db, id).data = {}
            /\ get_all_unmatched_media(db, id) = {}

\* C4: a delete request whose mark_hidden meets a hidden row or no row (never
\* created, or removed by the cascade) gets 0 and returns LibraryNotFound: it
\* publishes nothing and spawns no cascade, and success is returned only by a
\* request that met a visible row.
C4_DeleteOfGoneIsNotFound ==
    \A r \in Req :
        /\ (op[r].kind = "delete" /\ seen[r] \in {"none", "hidden"})
              => /\ count[r] = 0 /\ pc[r] = "done" /\ ret[r] = "LibraryNotFound"
                 /\ wpc[r] = "none" /\ ~sent[r].done
        /\ (op[r].kind = "delete" /\ ret[r] = "NoContent") => seen[r] = "visible"

\* C4 witness: a second delete returned LibraryNotFound on the hidden row that a
\* failed cascade left behind; another one on a row the cascade has removed.
C4_AfterFailedCascade ==
    \E w, r \in Req :
        /\ w # r /\ op[w].kind = "delete" /\ op[r] = op[w]
        /\ wpc[w] = "failed" /\ ret[r] = "LibraryNotFound" /\ seen[r] = "hidden"

\* No row of the library and no media or media file referring to it is stored.
Gone(st, id) ==
    /\ id \in LibIds => ~st.library[id].present
    /\ \A m \in st.media : m.library_id # id
    /\ \A m \in st.mediafile : m.library_id # id

\* C6: under fair scheduling, once a delete request is back from the commit that
\* hides a library, either its cascade task fails, or eventually the library row and
\* every media and media-file record of that library are absent from the store.
C6_CascadeEventuallyRemoves ==
    \A r \in Req :
        (op[r].kind = "delete" /\ pc[r] = "drop")
            ~> (wpc[r] = "failed" \/ Gone(db, op[r].id))

\* C6 witness: the cascade of the seeded library, which had media and media
\* files, has committed and nothing of the library is left.
C6_Removed ==
    \E r \in Req :
        /\ op[r].kind = "delete" /\ wpc[r] = "deleted" /\ seen[r] = "visible"
        /\ SeededStore.library[op[r].id].present
        /\ db.next_id = SeededStore.next_id
        /\ Gone(db, op[r].id)

\* C7, in every state: a cascade task exists exactly for the delete requests that
\* returned success, it takes the writer lock at most once, and after a failed
\* cascade the library is still stored, hidden.
C7_State ==
    \A r \in Req :
        /\ attempts[r] <= 1
        /\ attempts[r] = (IF wpc[r] \in {"none", "lock"} THEN 0 ELSE 1)
        /\ (wpc[r] # "none") <=> (op[r].kind = "delete" /\ ret[r] = "NoContent")
        /\ wpc[r] = "failed" => row_state(db, op[r].id) = "hidden"

\* C7, in every step: a delete request past its commit can only go on to return
\* success, a returned success is never taken back, a finished cascade (failed
\* or not) never runs again, and the step in which a cascade fails changes no
\* request's result, nor the store, nor the event channel.
C7_Step ==
    \A r \in Req :
        /\ (op[r].kind = "delete" /\ pc[r] \in {"drop", "send", "spawn"})
              => \/ pc'[r] \in {"drop", "send", "spawn"}
                 \/ pc'[r] = "done" /\ ret'[r] = "NoContent"
        /\ ret[r] = "NoContent" => ret'[r] = "NoContent"
        /\ wpc[r] \in {"failed", "deleted"} => wpc'[r] = wpc[r]
        /\ (wpc[r] # "failed" /\ wpc'[r] = "failed")
              => /\ ret' = ret /\ pc' = pc /\ db' = db /\ rx' = rx
                 /\ attempts'[r] = 1

\* C7: a delete request whose mark-hidden transaction commits returns success
\* whatever becomes of the cascade; a cascade failure is absorbed, the cascade is
\* attempted exactly once and never retried, and the library then stays stored
\* and hidden.
C7_SuccessWhateverTheCascade == []C7_State /\ [][C7_Step]_vars

\* C7 witness: the delete returned success, its cascade failed after one attempt,
\* and the row is still there, hidden.
C7_FailedCascade ==
    \E r \in Req :
        /\ ret[r] = "NoContent" /\ wpc[r] = "failed" /\ attempts[r] = 1
        /\ row_state(db, op[r].id) = "hidden"

\* What a subscriber holds after msg was published: msg appended when it is
\* subscribed and has room, what it held before otherwise.
after_publish(sub, msg) ==
    IF sub.open /\ Len(sub.buf) < BufCap THEN [sub EXCEPT !.buf = Append(@, msg)] ELSE sub

\* C10, in every state: a request that has reached its send can take it at once,
\* whoever is subscribed, and a request that has published and returned has
\* returned success.
C10_State ==
    \A r \in Req :
        /\ pc[r] = "send" => ENABLED (delete_send(r) \/ post_send(r))
        /\ (sent[r].done /\ pc[r] = "done")
              => ret[r] = (IF op[r].kind = "post" THEN "Created" ELSE "NoContent")

\* C10, in every step: the send leaves the store, the open transaction and the
\* writer lock as they are and takes the handler to its next line (the spawn of
\* the cascade, the Created reply); every subscriber with room gets the message
\* and for every other one it is dropped.
C10_Step ==
    \A r \in Req :
        (pc[r] = "send" /\ pc'[r] # "send") =>
            /\ db' = db /\ tx' = tx /\ writer' = writer /\ wpc' = wpc /\ spc' = spc
            /\ IF op[r].kind = "post"
               THEN /\ pc'[r] = "done" /\ ret'[r] = "Created"
                    /\ \A s \in Sub : rx'[s] = after_publish(rx[s], Message(newid[r], "EventNewLibrary"))
               ELSE /\ pc'[r] = "spawn" /\ ret'[r] = ret[r]
                    /\ \A s \in Sub : rx'[s] = after_publish(rx[s], Message(op[r].id, "EventRemoveLibrary"))

\* C10: publishing never blocks and never fails the mutation: with no
\* subscriber, with a subscriber with room and with a subscriber whose buffer is
\* full, the request goes on to the same result and the same store; a message
\* that cannot be delivered is dropped.
C10_PublishNeverFails == []C10_State /\ [][C10_Step]_vars

\* C10 witness: a delete that published into a full buffer, the message dropped,
\* has returned success.
C10_PublishedIntoFullBuffer ==
    \E r \in Req :
        /\ op[r].kind = "delete" /\ pc[r] = "done" /\ ret[r] = "NoContent"
        /\ sent[r].done /\ sent[r].full # {} /\ sent[r].to = {}

Removed(id) == Message(id, "EventRemoveLibrary")

\* C11, in every state: a delete that returned success has published; it
\* publishes after its mark-hidden transaction has committed and its lock is
\* dropped, while the hidden row is still stored; and its cascade is spawned
\* only after the publish.
C11_State ==
    \A r \in Req : op[r].kind = "delete" =>
        /\ ret[r] = "NoContent" => sent[r].done
        /\ sent[r].done => (seen[r] = "visible" /\ pc[r] \in {"spawn", "done"})
        /\ wpc[r] # "none" => sent[r].done
        /\ pc[r] = "send"
              => /\ row_state(db, op[r].id) = "hidden" /\ wpc[r] = "none"
                 /\ writer # request(r) /\ ~sent[r].done

\* C11, in every step: a request publishes at most once; the publish of a delete
\* puts the Removed event of its id into the buffer of every subscriber that is
\* subscribed with room, at a moment when the row is stored, hidden, and no
\* cascade of the request exists; and a Removed event enters a buffer in no
\* other step.
C11_Step ==
    /\ \A r \in Req : sent[r].done => sent'[r] = sent[r]
    /\ \A r \in Req :
          (op[r].kind = "delete" /\ ~sent[r].done /\ sent'[r].done)
             => /\ pc[r] = "send" /\ wpc[r] = "none" /\ wpc'[r] = "none"
                /\ row_state(db, op[r].id) = "hidden" /\ db' = db
                /\ sent'[r].to = {s \in Sub : rx[s].open /\ Len(rx[s].buf) < BufCap}
                /\ \A s \in Sub : rx'[s] = after_publish(rx[s], Removed(op[r].id))
    /\ \A s \in Sub : \A id \in LibIds :
          (/\ rx[s].open /\ rx'[s].open
           /\ Len(rx'[s].buf) = Len(rx[s].buf) + 1
           /\ rx'[s].buf[Len(rx'[s].buf)] = Removed(id))
             => \E r \in Deleters(id) : ~sent[r].done /\ sent'[r].done

\* C11: each successful delete publishes exactly one Removed event of its id,
\* which the subscribers with a free buffer get; it is published after the
\* commit of the hiding and before the cascade exists, so it is there to be
\* seen while the rows of the library are still stored.
C11_RemovedPublishedOnce == []C11_State /\ [][C11_Step]_vars

\* C11 witness: a subscriber holds the Removed event of a library whose delete
\* returned success, and the hidden row and its media files are still stored.
C11_SeenBeforeCascade ==
    \E r \in Req : \E s \in Sub :
        /\ op[r].kind = "delete" /\ ret[r] = "NoContent" /\ s \in sent[r].to
        /\ rx[s].open /\ rx[s].buf # <<>> /\ rx[s].buf[Len(rx[s].buf)] = Removed(op[r].id)
        /\ row_state(db, op[r].id) = "hidden"
        /\ \E m \in db.mediafile : m.library_id = op[r].id

Registrants(t) == {r \in Req : op[r].kind = "register" /\ op[r].invite_token = t}
Claimants(st, t) == {u \in st.users : u.claimed_invite = t}

\* The token was issued and, when the registrations using it started, no account
\* had claimed it and none held a username they ask for: every such account in
\* the store is the one a registration using t has made.
FreshFor(t) ==
    /\ t \in db.invites
    /\ \A u \in db.users :
          (u.claimed_invite = t \/ \E r \in Registrants(t) : op[r].username = u.username)
             => \E r \in Registrants(t) :
                   /\ ret[r] = "Registered" /\ op[r].username = u.username
                   /\ u.claimed_invite = t

\* C5: no two accounts carry the same claimed_invite, in the store and in the
\* open transaction; of the concurrent registrations using one token at most
\* one succeeds; and given a valid unclaimed token, once they are all done, none
\* ended by a store error or a cancellation, exactly one has succeeded and
\* every other has failed with Conflict or InvalidToken.
C5_OneRegistrationPerToken ==
    \A t \in Tokens :
        LET R == Registrants(t) IN
        /\ Cardinality(Claimants(db, t)) <= 1
        /\ tx.open => Cardinality(Claimants(tx.st, t)) <= 1
        /\ Cardinality({r \in R : ret[r] = "Registered"}) <= 1
        /\ \A r \in R : ret[r] = "Registered" => seen[r] = "valid"
        /\ (FreshFor(t) /\ R # {} /\ \A r \in R : pc[r] = "done" /\ ~Failed(r))
              => \E w \in R :
                    /\ ret[w] = "Registered"
                    /\ \A r \in R \ {w} : ret[r] \in {"Conflict", "InvalidToken"}

\* C5 witness: two registrations under different usernames used the same fresh
\* token; both are done, one has the account and the other got InvalidToken.
C5_TwoRacers ==
    \E t \in Tokens : \E w, r \in Registrants(t) :
        /\ w # r /\ op[w].username # op[r].username /\ FreshFor(t)
        /\ pc[w] = "done" /\ ret[w] = "Registered" /\ seen[w] = "valid"
        /\ pc[r] = "done" /\ ret[r] = "InvalidToken" /\ seen[r] = "invalid"
        /\ Cardinality(Claimants(db, t)) = 1

\* C8: for all salts and secrets, verifying the secret against its own digest
\* under the same salt gives true, and verifying any other secret gives false.
C8_VerifyIffSameSecret ==
    (hpc = "done" /\ stored = hash(salt, secret))
        => outcome = (IF attempted_password = secret THEN "true" ELSE "false")

\* C9: when the stored digest is not validly encoded, verify returns false, as
\* for a wrong password, and does not abort.
C9_MalformedDigestFailsClosed ==
    (hpc = "done" /\ ~base64_decode(stored).ok) => outcome = "false"

\* C12: an invite token is single-use.  Over every sequence of calls each issued
\* token is accepted by at most one successful registration, and once an account
\* has claimed a token invite_token_valid never again returns true for it.
C12_TokenSingleUse ==
    /\ \A t \in Tokens : accepted[t] <= 1
    /\ \A t \in Tokens :
          (accepted[t] >= 1 /\ last.call = "invite_token_valid" /\ last.token = t)
             => last.result = "false"

\* C13: every stored account's password is hash(its current username, its current
\* secret), so get_one(current username, current secret) finds the account, and
\* two accounts holding the same secret have different stored passwords.
C13_HashOfCurrentUsername ==
    \A u \in db.users :
       /\ u.password = hash(u.username, plain[u.username])
       /\ User_get_one(db, u.username, plain[u.username]).ok
       /\ \A v \in db.users :
             (v.username # u.username /\ plain[v.username] = plain[u.username])
                => v.password # u.password

\* C14: invite_token_valid returns true if and only if the login carries a token,
\* the invites table holds that token, and no account's claimed_invite equals it;
\* a login without a token yields false.
C14_ValidIffIssuedUnclaimed ==
    last.call = "invite_token_valid" =>
       /\ last.result = "true" <=>
             /\ last.token # None
             /\ last.token \in db.invites
             /\ \A u \in db.users : u.claimed_invite # last.token
       /\ last.token = None => last.result = "false"
       /\ last.result \in {"true", "false"}

\* A token that was valid is asked about again after an account has claimed it,
\* and a token that was never issued is asked about while no account exists.
C14_ClaimedTokenAsked ==
    /\ last.call = "invite_token_valid"
    /\ last.result = "false"
    /\ last.token \in db.invites
    /\ \E u \in db.users : u.claimed_invite = last.token /\ accepted[last.token] = 1
    /\ \E t \in db.invites : \A u \in db.users : u.claimed_invite # t

\* C15: a read request never waits for the writer lock or for another reader.
\* Whatever the writer and the other readers are doing, a GET request that has
\* not begun can take its read transaction, and one that has it can run its
\* queries and reply: both steps are enabled in every reachable state.
C15_ReaderNeverWaits ==
    \A k \in Readers :
       /\ rdpc[k] = "begin" => ENABLED (read_begin(k) /\ rdpc'[k] = "query")
       /\ rdpc[k] = "query" => ENABLED read_query(k)

\* A read began while a write transaction was open and another reader had its
\* transaction, and has replied while both are still there.
C15_ReadBesideWriter ==
    \E k \in Readers :
       /\ rdpc[k] = "done" /\ rdret[k].status = "Ok"
       /\ rdsaw[k].writer /\ rdsaw[k].readers
       /\ tx.open /\ writer # Free
       /\ \E j \in Readers \ {k} : Reading(j)

\* C16: the cascade for one library is all-or-nothing.  In every reachable state
\* a library whose row is absent has no media and no media file referencing its
\* id, and so it is once a cascade has committed.  A step that removes the row,
\* a media or a media file of an id removes the row and all of them at once, is
\* the commit of a cascade for that id, and finds the row hidden; a cascade
\* that fails at any step leaves the store as it was.
Dependents(st, id) ==
    {m \in st.media : m.library_id = id} \cup {m \in st.mediafile : m.library_id = id}

C16_State ==
    /\ \A id \in LibIds : ~db.library[id].present => Dependents(db, id) = {}
    /\ \A r \in Req : wpc[r] \in {"drop", "deleted"} =>
          /\ ~db.library[op[r].id].present
          /\ Dependents(db, op[r].id) = {}

C16_Step ==
    /\ \A id \in LibIds :
          (\/ db.library[id].present /\ ~db'.library[id].present
           \/ ~(Dependents(db, id) \subseteq Dependents(db', id)))
          => /\ ~db'.library[id].present
             /\ Dependents(db', id) = {}
             /\ db.library[id].present /\ db.library[id].hidden
             /\ \E r \in Deleters(id) : wpc[r] = "commit" /\ wpc'[r] = "drop"
    /\ \A r \in Req : (wpc[r] # "failed" /\ wpc'[r] = "failed") => db' = db

C16_CascadeAllOrNothing == []C16_State /\ [][C16_Step]_vars

\* The cascade for the scanned library of the seeded store has committed: the
\* row, its media and its media files are gone.
C16_SeededLibraryGone ==
    /\ \A r \in Req : op[r].kind = "delete"
    /\ db.next_id = 2
    /\ \E r \in Deleters(1) : wpc[r] = "deleted" /\ seen[r] = "visible"
    /\ ~db.library[1].present /\ Dependents(db, 1) = {}

\* C17: a request never holds the writer lock across the hand-off.  A delete
\* request that is about to publish its event or to spawn the cascade task, and
\* a create request that is about to spawn the scanner or to publish its event,
\* has committed its transaction and does not hold the writer lock; the steps
\* that publish and spawn are taken without the lock.
Committed(r) ==
    IF op[r].kind = "delete"
    THEN /\ count[r] = 1
         /\ db.library[op[r].id].present /\ db.library[op[r].id].hidden
    ELSE newid[r] \in LibIds /\ newid[r] < db.next_id

C17_State ==
    \A r \in Req : pc[r] \in {"send", "spawn"} =>
        /\ writer # request(r)
        /\ Committed(r)

C17_Step ==
    \A r \in Req :
        (\/ sent'[r] # sent[r]
         \/ wpc[r] = "none" /\ wpc'[r] # "none"
         \/ spc[r] = "none" /\ spc'[r] # "none")
        => /\ pc[r] \in {"send", "spawn"}
           /\ writer # request(r) /\ writer' # request(r)
           /\ UNCHANGED <<db, tx, writer>>

C17_LockReleasedBeforeHandOff == []C17_State /\ [][C17_Step]_vars

\* A delete request is about to spawn its cascade and a create request is about
\* to publish, while nobody holds the writer lock.
C17_BothHandingOff ==
    \E r1, r2 \in Req :
        /\ op[r1].kind = "delete" /\ pc[r1] = "spawn"
        /\ op[r2].kind = "post" /\ pc[r2] = "send" /\ spc[r2] = "spawned"
        /\ writer = Free /\ ~tx.open

\* C18: a delete request that leaves its writer transaction by another path
\* than commit (mark_hidden returned 0, a store error, a cancellation before the
\* commit) leaves the store as it was, publishes no event, spawns no cascade and
\* releases the writer lock.  No step of the request before its commit changes
\* the store, the step in which it leaves changes neither the store nor the
\* channel and frees the lock it held, and afterwards it has published nothing
\* and has no cascade, for good.
NoCommitExits == {"LibraryNotFound", "DatabaseError", "Cancelled"}

C18_State ==
    \A r \in Req : (op[r].kind = "delete" /\ ret[r] \in NoCommitExits) =>
        /\ pc[r] = "done"
        /\ sent[r] = Unsent
        /\ wpc[r] = "none"
        /\ writer # request(r)

C18_Step ==
    \A r \in Req : op[r].kind = "delete" =>
        /\ (pc[r] \in {"lock", "write_tx", "mark_hidden"} /\ pc'[r] # pc[r]) => db' = db
        /\ (ret[r] = "none" /\ ret'[r] \in NoCommitExits) =>
              /\ db' = db /\ rx' = rx /\ wpc' = wpc /\ sent' = sent
              /\ writer' # request(r)
              /\ writer = request(r) => (writer' = Free /\ tx' = NoTx)
              /\ writer # request(r) => UNCHANGED <<writer, tx>>
        /\ ret[r] \in NoCommitExits => ret'[r] = ret[r]

C18_NoCommitNoEffect == []C18_State /\ [][C18_Step]_vars

\* One delete was cancelled at its commit with the row marked in its
\* transaction, another of the same library failed in the store: the row is
\* still visible and the lock is free.
C18_RolledBack ==
    \E r1, r2 \in Req :
        /\ op[r1].kind = "delete" /\ op[r2].kind = "delete"
        /\ ret[r1] = "Cancelled" /\ count[r1] = 1
        /\ ret[r2] = "DatabaseError" /\ count[r2] = 1
        /\ op[r1].id = op[r2].id
        /\ row_state(db, op[r1].id) = "visible"
        /\ writer = Free /\ ~tx.open

\* C19: once the mark-hidden transaction of a delete request has committed,
\* cancelling the request cannot suppress the Removed event nor keep the cascade
\* from being spawned: every finished delete request whose transaction is
\* committed has published its event and has its cascade task.
C19_CancelCannotSuppress ==
    \A r \in Req :
        (/\ op[r].kind = "delete" /\ pc[r] = "done"
         /\ ret[r] \in {"NoContent", "CancelledAfterCommit"})
        => /\ sent[r].done
           /\ wpc[r] # "none"

\* C20: the lifecycle of a library is monotonic.  In every step a visible row
\* stays or becomes hidden, a hidden row stays or is removed, and a removed row
\* never comes back; a row is removed only while hidden, by the commit of a
\* cascade; a new row appears visible under an id never used before.  A cascade
\* task exists only for a request whose mark_hidden counted 1 and whose row is
\* hidden in the store, or removed by that cascade.
C20_State ==
    \A r \in Req : wpc[r] # "none" =>
        /\ op[r].kind = "delete" /\ count[r] = 1 /\ seen[r] = "visible"
        /\ row_state(db, op[r].id) \in {"hidden", "none"}
        /\ row_state(db, op[r].id) = "none" => wpc[r] \in {"drop", "deleted"}

C20_Step ==
    \A id \in LibIds :
        /\ row_state(db, id) = "visible" => row_state(db', id) \in {"visible", "hidden"}
        /\ row_state(db, id) = "hidden" => row_state(db', id) \in {"hidden", "none"}
        /\ (row_state(db, id) = "none" /\ id < db.next_id) => row_state(db', id) = "none"
        /\ (row_state(db, id) = "none" /\ row_state(db', id) # "none")
              => row_state(db', id) = "visible" /\ id = db.next_id
        /\ (row_state(db, id) # "none" /\ row_state(db', id) = "none")
              => \E r \in Deleters(id) : wpc[r] = "commit" /\ wpc'[r] = "drop"
        /\ db'.next_id >= db.next_id

C20_LifecycleMonotonic == []C20_State /\ [][C20_Step]_vars

\* A library was created, then hidden by a delete, then removed by its cascade.
C20_CreatedHiddenRemoved ==
    \E r1, r2 \in Req :
        /\ op[r1].kind = "post" /\ ret[r1] = "Created"
        /\ op[r2].kind = "delete" /\ op[r2].id = newid[r1]
        /\ ret[r2] = "NoContent" /\ wpc[r2] = "deleted"
        /\ row_state(db, newid[r1]) = "none" /\ newid[r1] < db.next_id

\* C23: delete_token removes the token and returns 1 only when the invites table
\* holds the token and no account has claimed it; for a claimed or unknown token
\* it returns 0 and leaves the invites table as it was.  It never touches the
\* accounts, and never removes the invite an existing account was created with.
C23_Step ==
    (last'.call = "delete_token" /\ nops' = nops + 1) =>
        LET t == last'.token
            unclaimed == \A u \in db.users : u.claimed_invite # t
        IN  /\ last'.count \in {0, 1}
            /\ last'.count = 1 <=> (t \in db.invites /\ unclaimed)
            /\ last'.count = 1 => db'.invites = db.invites \ {t}
            /\ last'.count = 0 => db'.invites = db.invites
            /\ db'.users = db.users
            /\ \A u \in db.users :
                  u.claimed_invite \in db.invites => u.claimed_invite \in db'.invites

C23_RevokeOnlyUnclaimed == [][C23_Step]_vars

\* The token an account was created with was to be revoked: delete_token
\* returned 0 and the invite is still there, while another token that had been
\* issued is gone.
C23_ClaimedTokenKept ==
    /\ last.call = "delete_token" /\ last.count = 0
    /\ last.token \in db.invites
    /\ \E u \in db.users : u.claimed_invite = last.token
    /\ issued \ db.invites # {}

\* C22: a create request inserts the library as a visible row inside a writer
\* transaction and only after the commit spawns the scanner with the new id and
\* publishes one EventNewLibrary with that id; from then until a delete hides it
\* the library is in the list of library_get, which is ordered by name.  A create
\* that fails in the store spawns nothing and publishes nothing.
Creators == {r \in Req : op[r].kind = "post"}
Created(id) == Message(id, "EventNewLibrary")
Listed(id) == \E i \in 1..Len(library_get(db)) : library_get(db)[i].id = id
HiddenByDelete(id) ==
    \E d \in Deleters(id) :
        /\ count[d] = 1
        /\ pc[d] \in {"drop", "send", "spawn"} \/ ret[d] \in {"NoContent", "CancelledAfterCommit"}

CommittedCreate(r) ==
    pc[r] \in {"drop", "spawn", "send"} \/ ret[r] \in {"Created", "CancelledAfterCommit"}

C22_State ==
    /\ \A r \in Creators :
          \* hand-off and event only after the commit, outside the lock
          /\ (pc[r] \in {"spawn", "send"} \/ spc[r] # "none" \/ sent[r].done)
                => /\ newid[r] \in LibIds /\ newid[r] < db.next_id
                   /\ writer # request(r)
          /\ spc[r] # "none" => pc[r] \in {"send", "done"}
          /\ sent[r].done => (pc[r] = "done" /\ spc[r] # "none")
          /\ ret[r] = "Created" <=> sent[r].done
          \* inside the transaction the new row is visible, and not yet stored
          /\ pc[r] = "commit" =>
                /\ writer = request(r) /\ tx.open
                /\ row_state(tx.st, newid[r]) = "visible"
                /\ row_state(db, newid[r]) = "none"
          \* a create that failed or was dropped has handed off nothing
          /\ ret[r] \in {"DatabaseError", "Cancelled", "CancelledAfterCommit"}
                => spc[r] = "none" /\ sent[r] = Unsent
          \* listed, under its name, from the commit until a delete hides it
          /\ (pc[r] \in {"drop", "spawn", "send"} \/ ret[r] = "Created")
                => \/ /\ Listed(newid[r])
                      /\ \A i \in 1..Len(library_get(db)) :
                            library_get(db)[i].id = newid[r]
                               => library_get(db)[i].name = op[r].name
                   \/ HiddenByDelete(newid[r])
          \* no two committed creates got the same id
          /\ \A q \in Creators \ {r} :
                (CommittedCreate(r) /\ CommittedCreate(q)) => newid[r] # newid[q]
    \* the list holds the visible rows, once each, ordered by name
    /\ LET x == library_get(db) IN
          /\ \A i, j \in 1..Len(x) : i < j => (x[i].name <= x[j].name /\ x[i].id # x[j].id)
          /\ {x[i].id : i \in 1..Len(x)} = {id \in LibIds : row_state(db, id) = "visible"}

C22_Step ==
    /\ \A r \in Creators :
          /\ sent[r].done => sent'[r] = sent[r]
          /\ (~sent[r].done /\ sent'[r].done)
                => /\ pc[r] = "send" /\ spc[r] # "none"
                   /\ \A s \in Sub : rx'[s] = after_publish(rx[s], Created(newid[r]))
                   /\ sent'[r].to = {s \in Sub : rx[s].open /\ Len(rx[s].buf) < BufCap}
                   /\ db' = db
          /\ (spc[r] = "none" /\ spc'[r] # "none")
                => pc[r] = "spawn" /\ db' = db /\ rx' = rx /\ newid'[r] = newid[r]
          /\ (newid[r] # 0 /\ pc[r] # "done") => newid'[r] = newid[r]
    /\ \A s \in Sub : \A id \in LibIds :
          (/\ rx'[s].open /\ Len(rx'[s].buf) > Len(rx[s].buf)
           /\ rx'[s].buf[Len(rx'[s].buf)] = Created(id))
          => \E r \in Creators : newid[r] = id /\ ~sent[r].done /\ sent'[r].done

C22_CreateThenHandOff == []C22_State /\ [][C22_Step]_vars

\* A create has returned Created: a subscriber holds its event, the scanner was
\* spawned, and the new library is listed before the older one, whose name
\* comes later.
C22_ListedAndAnnounced ==
    \E r \in Creators : \E s \in Sub :
        /\ ret[r] = "Created" /\ spc[r] # "none"
        /\ s \in sent[r].to
        /\ rx[s].open /\ rx[s].buf # <<>> /\ rx[s].buf[Len(rx[s].buf)] = Created(newid[r])
        /\ Len(library_get(db)) = 2
        /\ library_get(db)[1].id = newid[r]
        /\ library_get(db)[2].id < newid[r]

\* C21: the writer lock cannot deadlock.  Only a request or a cascade task that
\* is inside its locked section owns the lock: whoever has left, by commit, by
\* LibraryNotFound, by a store error or by being dropped, has released it, with
\* its transaction.  Dropping a request that waits for the lock changes neither
\* the lock nor the transaction nor the store.  Under fair scheduling every
\* request and every cascade task that waits for the lock gets it, unless the
\* request is dropped, and whoever holds the lock releases it.
InSection(r) == pc[r] \in {"write_tx", "mark_hidden", "insert", "commit", "drop"}
CascadeInSection(r) ==
    wpc[r] \in {"write_tx", "delete_library", "delete_media", "delete_mediafile",
                "commit", "drop"}

C21_State ==
    /\ \A r \in Req :
          /\ writer = request(r) <=> InSection(r)
          /\ writer = cascade(r) <=> CascadeInSection(r)
    /\ tx.open => writer # Free

C21_Step ==
    \A r \in Req :
        /\ (pc[r] = "lock" /\ pc'[r] = "done")
              => (ret'[r] = "Cancelled" /\ UNCHANGED <<writer, tx, db>>)
        /\ (InSection(r) /\ ~InSection(r)')
              => (writer' = Free /\ tx' = NoTx)
        /\ (CascadeInSection(r) /\ ~CascadeInSection(r)')
              => (writer' = Free /\ tx' = NoTx)
        /\ (writer = request(r) /\ writer' # writer) => writer' = Free
        /\ (writer = cascade(r) /\ writer' # writer) => writer' = Free

C21_Live ==
    /\ \A r \in Req : (pc[r] = "lock") ~> (writer = request(r) \/ ret[r] = "Cancelled")
    /\ \A r \in Req : (wpc[r] = "lock") ~> (writer = cascade(r))
    /\ (writer # Free) ~> (writer = Free)

C21_NoDeadlock == []C21_State /\ [][C21_Step]_vars /\ C21_Live

\* A request waits for the lock while the cascade task of the other request
\* holds it inside its transaction, after that request had left with the lock
\* released.
C21_WaitingBehindCascade ==
    \E r1, r2 \in Req :
        /\ r1 # r2
        /\ writer = cascade(r1) /\ tx.open
        /\ pc[r1] = "done" /\ ret[r1] = "NoContent"
        /\ pc[r2] = "lock"

====
